---- MODULE Spec2Model ----
(***************************************************************************)
(* soccer-cli (soccer/main.py): the command line entry point `main`, the   *)
(* stats API client `_get`, the query handlers and the live-score polling  *)
(* recursion, as a state machine.                                          *)
(*                                                                         *)
(* One run of the program is one invocation: either `main` is invoked with *)
(* the options click has parsed, or a handler function of the module is    *)
(* called directly.  Everything the program does that can be observed from *)
(* outside (HTTP requests, exceptions raised, messages printed with        *)
(* click.secho, writer calls, sleeps) is appended to `log` in the order    *)
(* the code does it.  The remote services are the environment: every       *)
(* request draws its status code and its body from bounded sets.           *)
(*                                                                         *)
(* The option --use12hour and the API key are passed through to the writer *)
(* and the request header unread; they are left out of the state.          *)
(***************************************************************************)
EXTENDS Integers, Sequences, FiniteSets, TLC

VARIABLES
    pc,           \* position: Idle, main, a handler's name, Fetching, Rendering, Waiting, Done
    args,         \* the parameters of main while its body has not run yet
    frame,        \* the running handler and its parameters
    writer,       \* the writer main has constructed ("None" before get_writer)
    log,          \* the observable events so far, in order
    competition,  \* currentMatchday of the competition lookup's body (-1: none)
    resp,         \* the latest live response: status code and games
    scores,       \* the bundle the live handler is about to hand to the writer
    shown,        \* the bundle of the latest writer.live_scores call
    cycles        \* the depth of the polling recursion

vars == <<pc, args, frame, writer, log, competition, resp, scores, shown, cycles>>

----------------------------------------------------------------------------
(* Bounds of the model *)

MaxTime == 1        \* --time ranges over -1 .. MaxTime
MaxMatchday == 1    \* --matchday and currentMatchday range up to MaxMatchday
MaxRefresh == 1     \* --refresh ranges over -1 .. MaxRefresh
MaxItems == 1       \* fixtures / players in a stats response: 0 .. MaxItems
MaxGames == 2       \* games in a live response: 0 .. MaxGames
MaxCycles == 2      \* sleeps of the polling recursion that are followed

(* Program constants *)

CodeOk == 200
CodeBad == 400
CodeForbidden == 403
CodeNotFound == 404
CodeTooManyRequests == 429

(* The status codes a response may carry: those the code names, and one more *)
Statuses ==
    {CodeOk, CodeBad, CodeForbidden, CodeNotFound, CodeTooManyRequests} \cup {500}

(* Static tables (stand-ins for the bundled data: two leagues, one team) *)

LEAGUE_IDS == ("EPL" :> 398) @@ ("CL" :> 405)
LEAGUE_NAMES == ("EPL" :> "Premier League") @@ ("CL" :> "Champions League")
LEAGUE_KEYS == ("Premier League" :> "English Premier League")
TEAM_NAMES == ("MUFC" :> 66)

LeagueCodes == DOMAIN LEAGUE_IDS
TeamCodes == DOMAIN TEAM_NAMES
UnknownTeam == "ZZZ"
RawLeagues == {LEAGUE_NAMES[l] : l \in LeagueCodes}

----------------------------------------------------------------------------
(* Events *)

E(kind, what, n) == [kind |-> kind, what |-> what, n |-> n]

Last(s) == s[Len(s)]

SeqsUpTo(S, n) == UNION {[1..k -> S] : k \in 0..n}

(* The body of a live response: games, in the order the service lists them *)
Games(names) == [i \in DOMAIN names |-> [league |-> names[i], id |-> i]]

NoArgs == [league |-> "None", time |-> 0, standings |-> FALSE, extended |-> FALSE,
           matchday |-> 0, team |-> "None", live |-> FALSE, refresh |-> 0,
           players |-> FALSE, output_format |-> "None", output_file |-> "None",
           upcoming |-> FALSE, lookup |-> FALSE, listcodes |-> FALSE,
           listleagues |-> FALSE]

(* What click hands to main: --league and --team are click.Choice options *)
MainArgs ==
    [league : LeagueCodes \cup {"None"},
     time : -1..MaxTime,
     standings : BOOLEAN,
     extended : BOOLEAN,
     matchday : -1..MaxMatchday,
     team : TeamCodes \cup {"None"},
     live : BOOLEAN,
     refresh : -1..MaxRefresh,
     players : BOOLEAN,
     output_format : {"stdout", "csv", "json"},
     output_file : {"None", "", "out.txt"},
     upcoming : BOOLEAN,
     lookup : BOOLEAN,
     listcodes : BOOLEAN,
     listleagues : BOOLEAN]

Frame(fn, league, team, time, matchday, refresh, extended, upcoming) ==
    [fn |-> fn, league |-> league, team |-> team, time |-> time,
     matchday |-> matchday, refresh |-> refresh, extended |-> extended,
     upcoming |-> upcoming]

NoFrame == Frame("None", "None", "None", 0, 0, 0, FALSE, FALSE)

NoResp == [status |-> 0, games |-> <<>>]

IsLive(fn) == fn \in {"get_live_scores", "get_live_league"}

Entry(fn) == IF IsLive(fn) THEN "Fetching" ELSE fn

----------------------------------------------------------------------------
(* _get: the stats API client *)

\* the exception _get raises for a status code ("None": it returns the response)
ApiRaises(status) ==
    IF status = CodeOk THEN "None"
    ELSE IF status \in {CodeBad, CodeForbidden, CodeNotFound} THEN "APIErrorException"
    \* line 100 reads req.status_codes, an attribute a Response does not have
    ELSE "AttributeError"

ApiMessage(status) ==
    IF status = CodeBad THEN "Invalid request. Check parameters."
    ELSE IF status = CodeForbidden THEN "This resource is restricted"
    ELSE IF status = CodeNotFound THEN "This resource does not exist. Check parameters"
    ELSE "'Response' object has no attribute 'status_codes'"

IsApiError(status) == ApiRaises(status) = "APIErrorException"

api_get(url, status) ==
    <<E("get", url, status)>> \o
    (IF status = CodeOk THEN <<>> ELSE <<E("raise", ApiRaises(status), status)>>)

(* What a handler's `except APIErrorException` clause adds when _get raised *)
Caught(status, message) ==
    IF IsApiError(status) THEN <<E("msg", message, 0)>> ELSE <<>>

----------------------------------------------------------------------------
(* Guards of the code *)

C6_mut_StdoutWithFile(output_format, output_file) ==
    output_format = "csv" /\ output_file \notin {"None", ""}

StdoutWithFile(output_format, output_file) ==
    output_format = "stdout" /\ output_file \notin {"None", ""}

C8_mut_MatchdayGiven(matchday) == matchday > 1

MatchdayGiven(matchday) == matchday > 0

C3_mut_TimeInvalid(time) == time < 0

TimeInvalid(time) == time < 1

C1_mut_MatchdayTooLate(current, matchday) == current + 1 < matchday

MatchdayTooLate(current, matchday) == current < matchday

C7_mut_ShouldRefresh(refresh) == refresh >= 0

ShouldRefresh(refresh) == refresh > 0

C10_mut_NoGames(games) == Len(games) < 0

NoGames(games) == Len(games) = 0

(* get_live_scores, lines 112-114 *)
RelabelKeys(games) ==
    [i \in DOMAIN games |->
        IF games[i].league \in DOMAIN LEAGUE_KEYS
        THEN [games[i] EXCEPT !.league = LEAGUE_KEYS[games[i].league]]
        ELSE games[i]]

RECURSIVE C5_mut_FilterLeague(_, _)
C5_mut_FilterLeague(games, league) ==
    IF games = <<>> THEN <<>>
    ELSE IF Head(games).league = LEAGUE_NAMES[league]
        THEN <<Head(games)>> \o C5_mut_FilterLeague(Tail(games), league)
        ELSE C5_mut_FilterLeague(Tail(games), league)

(* get_live_league, lines 137-142 *)
RECURSIVE FilterLeague(_, _)
FilterLeague(games, league) ==
    IF games = <<>> THEN <<>>
    ELSE IF Head(games).league = LEAGUE_NAMES[league]
        THEN <<[Head(games) EXCEPT !.league = league]>> \o FilterLeague(Tail(games), league)
        ELSE FilterLeague(Tail(games), league)

----------------------------------------------------------------------------
Init ==
    /\ pc = "Idle"
    /\ args = NoArgs
    /\ frame = NoFrame
    /\ writer = "None"
    /\ log = <<>>
    /\ competition = -1
    /\ resp = NoResp
    /\ scores = <<>>
    /\ shown = <<>>
    /\ cycles = 0

(* The program is started from the command line *)
Invoke ==
    /\ pc = "Idle"
    /\ pc' = "main"
    /\ \E a \in MainArgs : args' = a
    /\ UNCHANGED <<frame, writer, log, competition, resp, scores, shown, cycles>>

(* A handler of the module is called directly, with a writer of the caller *)
DirectCalls ==
    {Frame(fn, l, "None", 0, 0, r, FALSE, FALSE) :
        fn \in {"get_live_scores"}, l \in {"None"}, r \in -1..MaxRefresh}
    \cup {Frame("get_live_league", l, "None", 0, 0, r, FALSE, FALSE) :
        l \in LeagueCodes, r \in -1..MaxRefresh}
    \cup {Frame(fn, "None", t, 0, 0, 0, FALSE, FALSE) :
        fn \in {"get_team_players", "map_team_id"}, t \in TeamCodes \cup {UnknownTeam}}
    \cup {Frame("get_team_scores", "None", t, d, 0, 0, FALSE, u) :
        t \in TeamCodes \cup {UnknownTeam}, d \in -1..MaxTime, u \in BOOLEAN}
    \cup {Frame("get_league_scores", l, "None", d, 0, 0, FALSE, u) :
        l \in LeagueCodes \cup {"None"}, d \in -1..MaxTime, u \in BOOLEAN}
    \cup {Frame("get_standings", l, "None", 0, 0, 0, x, FALSE) :
        l \in LeagueCodes, x \in BOOLEAN}
    \cup {Frame("get_matchday_standings", l, "None", 0, m, 0, x, FALSE) :
        l \in LeagueCodes, m \in -1..MaxMatchday, x \in BOOLEAN}

Call ==
    /\ pc = "Idle"
    /\ \E f \in DirectCalls :
        /\ pc' = Entry(f.fn)
        /\ frame' = f
    /\ writer' = "stdout"
    /\ UNCHANGED <<args, log, competition, resp, scores, shown, cycles>>

(* main raises IncorrectParametersException; its except clause prints
   e.message, an attribute the exception has or has not, depending on the
   interpreter and on soccer.exceptions: the message is printed, or reading it
   raises AttributeError *)
Reject(message) ==
    /\ pc' = "Done"
    /\ frame' = NoFrame
    /\ \E printed \in {E("msg", message, 0), E("raise", "AttributeError", 0)} :
        log' = log \o <<E("raise", "IncorrectParametersException", 0), printed>>

Dispatch(f) ==
    /\ pc' = Entry(f.fn)
    /\ frame' = f
    /\ log' = log

Return(events) ==
    /\ pc' = "Done"
    /\ frame' = NoFrame
    /\ log' = log \o events

main ==
    /\ pc = "main"
    /\ args' = NoArgs
    /\ UNCHANGED <<competition, resp, scores, shown, cycles>>
    /\ IF StdoutWithFile(args.output_format, args.output_file)
       THEN /\ writer' = "None"
            /\ Reject("Printing output to stdout and saving to a file are mutually exclusive")
       ELSE /\ writer' = args.output_format
            /\ IF args.listcodes THEN Return(<<E("msg", "list_team_codes", 0)>>)
               ELSE IF args.listleagues THEN Return(<<E("msg", "list_league_codes", 0)>>)
               ELSE IF args.live THEN
                    IF args.league # "None"
                    THEN Dispatch(Frame("get_live_league", args.league, "None", 0, 0,
                                        args.refresh, FALSE, FALSE))
                    ELSE Dispatch(Frame("get_live_scores", "None", "None", 0, 0,
                                        args.refresh, FALSE, FALSE))
               ELSE IF args.standings THEN
                    IF args.league = "None"
                    THEN Reject("Please specify a league. Example --standings --league=EPL")
                    ELSE IF MatchdayGiven(args.matchday)
                    THEN Dispatch(Frame("get_matchday_standings", args.league, "None", 0,
                                        args.matchday, 0, args.extended, FALSE))
                    ELSE Dispatch(Frame("get_standings", args.league, "None", 0, 0, 0,
                                        args.extended, FALSE))
               ELSE IF TimeInvalid(args.time)
                    THEN Reject("Please specify a time value greater than 0.")
               ELSE IF args.team # "None" THEN
                    IF args.lookup
                    THEN Dispatch(Frame("map_team_id", "None", args.team, 0, 0, 0,
                                        FALSE, FALSE))
                    ELSE IF args.players
                    THEN Dispatch(Frame("get_team_players", "None", args.team, 0, 0, 0,
                                        FALSE, FALSE))
                    ELSE Dispatch(Frame("get_team_scores", "None", args.team, args.time,
                                        0, 0, FALSE, args.upcoming))
               ELSE Dispatch(Frame("get_league_scores", args.league, "None", args.time,
                                   0, 0, FALSE, args.upcoming))

----------------------------------------------------------------------------
(* Query handlers of the stats API: each runs to its end in one step *)

Finish(events) ==
    /\ pc' = "Done"
    /\ log' = log \o events
    /\ UNCHANGED <<args, frame, writer, resp, scores, shown, cycles>>

get_team_scores ==
    /\ pc = "get_team_scores"
    /\ UNCHANGED competition
    /\ IF frame.team \in TeamCodes
       THEN \E status \in Statuses, n \in 0..MaxItems :
                Finish(api_get("teams/{team_id}/fixtures", status) \o
                       (IF status # CodeOk THEN Caught(status, ApiMessage(status))
                        ELSE IF n = 0 THEN <<E("msg", "No action during {word} {time} days.", 0)>>
                        ELSE <<E("render", "team_scores", n)>>))
       ELSE Finish(<<E("msg", "Team code is not correct.", 0)>>)

get_matchday_standings ==
    /\ pc = "get_matchday_standings"
    /\ \E s1 \in Statuses, current \in 0..MaxMatchday, s2 \in Statuses :
        /\ competition' = IF s1 = CodeOk THEN current ELSE -1
        /\ Finish(api_get("competitions/{id}", s1) \o
              (IF s1 # CodeOk THEN Caught(s1, "No standings availble for {league}.")
               ELSE IF MatchdayTooLate(current, frame.matchday)
                    THEN <<E("msg", "The current matchday for this league is {matchday}",
                             current)>>
               ELSE api_get("competitions/{id}/leagueTable/?matchday={matchday}", s2) \o
                    (IF s2 # CodeOk THEN Caught(s2, "No standings availble for {league}.")
                     ELSE IF frame.extended THEN <<E("render", "standings_extended", 1)>>
                     ELSE <<E("render", "standings", 1)>>)))

get_standings ==
    /\ pc = "get_standings"
    /\ UNCHANGED competition
    /\ \E status \in Statuses :
        Finish(api_get("competitions/{id}/leagueTable", status) \o
              (IF status # CodeOk THEN Caught(status, "No standings availble for {league}.")
               ELSE IF frame.extended THEN <<E("render", "standings_extended", 1)>>
               ELSE <<E("render", "standings", 1)>>))

get_league_scores ==
    /\ pc = "get_league_scores"
    /\ UNCHANGED competition
    /\ \E status \in Statuses, n \in 0..MaxItems :
        IF frame.league # "None"
        THEN Finish(api_get("competitions/{id}/fixtures", status) \o
                (IF status # CodeOk THEN Caught(status, "No data for the given league.")
                 ELSE IF n = 0
                      THEN <<E("msg", "No {league} matches in the {word} {time} days.", 0)>>
                 ELSE <<E("render", "league_scores", n)>>))
        ELSE Finish(api_get("fixtures", status) \o
                (IF status # CodeOk THEN Caught(status, "No data available.")
                 ELSE <<E("render", "league_scores", n)>>))

get_team_players ==
    /\ pc = "get_team_players"
    /\ UNCHANGED competition
    /\ \E status \in Statuses, count \in 0..MaxItems :
        Finish(api_get("teams/{team_id}/players", status) \o
              (IF status # CodeOk
               THEN Caught(status, "No data for the team. Please check the team code.")
               ELSE IF count = 0 THEN <<E("msg", "No players found for this team", 0)>>
               ELSE <<E("render", "team_players", count)>>))

map_team_id ==
    /\ pc = "map_team_id"
    /\ UNCHANGED competition
    /\ IF frame.team \in TeamCodes
       THEN Finish(<<E("msg", "team name", 0)>>)
       ELSE Finish(<<E("msg", "No team found for this code", 0)>>)

----------------------------------------------------------------------------
(* The live handlers: request and post-processing, writer call, sleep *)

Stop(events) ==
    /\ pc' = "Done"
    /\ scores' = <<>>
    /\ log' = log \o events

get_live_scores ==
    /\ pc = "Fetching"
    /\ frame.fn = "get_live_scores"
    /\ UNCHANGED <<args, frame, writer, competition, shown, cycles>>
    /\ \E status \in Statuses, names \in SeqsUpTo(RawLeagues, MaxGames) :
        /\ resp' = [status |-> status, games |-> Games(names)]
        /\ IF status # CodeOk
           THEN Stop(<<E("live", "LIVE_URL", status),
                       E("msg", "There was problem getting live scores", 0)>>)
           ELSE IF NoGames(Games(names))
           THEN Stop(<<E("live", "LIVE_URL", status),
                       E("msg", "No live action currently", 0)>>)
           ELSE /\ pc' = "Rendering"
                /\ scores' = RelabelKeys(Games(names))
                /\ log' = Append(log, E("live", "LIVE_URL", status))

get_live_league ==
    /\ pc = "Fetching"
    /\ frame.fn = "get_live_league"
    /\ UNCHANGED <<args, frame, writer, competition, shown, cycles>>
    /\ \E status \in Statuses, names \in SeqsUpTo(RawLeagues, MaxGames) :
        /\ resp' = [status |-> status, games |-> Games(names)]
        /\ IF status # CodeOk
           THEN Stop(<<E("live", "LIVE_LEAGUES_URL", status),
                       E("msg", "There was problem getting live scores", 0)>>)
           ELSE IF NoGames(Games(names))
           THEN Stop(<<E("live", "LIVE_LEAGUES_URL", status),
                       E("msg", "No live action currently", 0)>>)
           ELSE IF Len(FilterLeague(Games(names), frame.league)) = 0
           THEN Stop(<<E("live", "LIVE_LEAGUES_URL", status),
                       E("msg", "No live action currently for {league}.", 0)>>)
           ELSE /\ pc' = "Rendering"
                /\ scores' = FilterLeague(Games(names), frame.league)
                /\ log' = Append(log, E("live", "LIVE_LEAGUES_URL", status))

(* writer.live_scores(...), then the test of refresh (lines 115-116, 147-148) *)
live_render ==
    /\ pc = "Rendering"
    /\ shown' = scores
    /\ log' = Append(log, E("render", "live_scores", Len(scores)))
    /\ pc' = IF ShouldRefresh(frame.refresh) THEN "Waiting" ELSE "Done"
    /\ UNCHANGED <<args, frame, writer, competition, resp, scores, cycles>>

(* The banner, time.sleep(refresh) and the recursive call (lines 117-124, 149-156) *)
live_sleep ==
    /\ pc = "Waiting"
    /\ cycles < MaxCycles
    /\ cycles' = cycles + 1
    /\ log' = log \o <<E("msg", "Next refresh in {0} seconds", frame.refresh),
                       E("sleep", "time.sleep", frame.refresh)>>
    /\ pc' = "Fetching"
    /\ UNCHANGED <<args, frame, writer, competition, resp, scores, shown>>

----------------------------------------------------------------------------
Next ==
    \/ Invoke
    \/ Call
    \/ main
    \/ get_team_scores
    \/ get_matchday_standings
    \/ get_standings
    \/ get_league_scores
    \/ get_team_players
    \/ map_team_id
    \/ get_live_scores
    \/ get_live_league
    \/ live_render
    \/ live_sleep

Spec == Init /\ [][Next]_vars

----------------------------------------------------------------------------
(* Reading the log *)

Count(kind) == Len(SelectSeq(log, LAMBDA e : e.kind = kind))

NoNetwork(events) == \A i \in DOMAIN events : events[i].kind \notin {"get", "live"}

Requests == SelectSeq(log, LAMBDA e : e.kind = "get")

Trace == SelectSeq(log, LAMBDA e : e.kind \in {"live", "render", "sleep"})

Rejected(events) ==
    /\ Len(events) > 0
    /\ events[1] = E("raise", "IncorrectParametersException", 0)

StopMessages ==
    {"There was problem getting live scores", "No live action currently",
     "No live action currently for {league}."}

(* The games of the latest live response that belong to the requested league *)
Matching == {i \in DOMAIN resp.games : resp.games[i].league = LEAGUE_NAMES[frame.league]}

PollFailed ==
    \/ resp.status # CodeOk
    \/ resp.games = <<>>
    \/ frame.fn = "get_live_league" /\ Matching = {}

----------------------------------------------------------------------------
(* C1: when the requested matchday is greater than the currentMatchday the
   competition lookup returned, get_matchday_standings prints the current
   matchday and does nothing else: the lookup is its only request and no
   writer operation is called. *)
C1_MatchdayGuard ==
    (/\ pc = "Done"
     /\ frame.fn = "get_matchday_standings"
     /\ competition >= 0
     /\ frame.matchday > competition)
    => log = <<E("get", "competitions/{id}", CodeOk),
               E("msg", "The current matchday for this league is {matchday}", competition)>>

C1_Witness ==
    /\ pc = "Done"
    /\ frame.fn = "get_matchday_standings"
    /\ competition >= 0
    /\ frame.matchday > competition
    /\ Count("get") = 1
    /\ Last(log).kind = "msg"

(* C2: every status code other than 200 makes _get raise an APIErrorException,
   with a message of their own for 400, 403, 404 and 429. *)
C2_StatusMapping ==
    /\ \A i \in DOMAIN log :
        (log[i].kind = "get" /\ log[i].n # CodeOk)
        => /\ i < Len(log)
           /\ log[i + 1].kind = "raise"
           /\ log[i + 1].what = "APIErrorException"
    /\ \A s, t \in {CodeBad, CodeForbidden, CodeNotFound, CodeTooManyRequests} :
        s # t => ApiMessage(s) # ApiMessage(t)

(* C3 as stated: whatever the other flags, main with a time value below 1 ends
   with IncorrectParametersException and without a request. *)
C3_Original ==
    [][(pc = "main" /\ args.time < 1)
       => (pc' = "Done" /\ Rejected(log') /\ NoNetwork(log'))]_vars

(* C3 as amended: main with a time value below 1 and none of --list, --leagues,
   --live, --standings ends with IncorrectParametersException, without a
   request and without running a handler, whatever the other flags. *)
C3_TimeRejected ==
    [][/\ pc # "Done"
       /\ (/\ pc = "main"
           /\ args.time < 1
           /\ ~args.listcodes /\ ~args.listleagues /\ ~args.live /\ ~args.standings)
          => (pc' = "Done" /\ frame' = NoFrame /\ Rejected(log') /\ NoNetwork(log'))]_vars

C3_Witness ==
    /\ pc = "Done"
    /\ writer # "None"
    /\ log = <<E("raise", "IncorrectParametersException", 0),
               E("msg", "Please specify a time value greater than 0.", 0)>>

(* C4: for a team code that is not in TEAM_NAMES, get_team_players, map_team_id
   and get_team_scores end with a message and without a request. *)
C4_UnknownTeamNoCall ==
    (/\ pc = "Done"
     /\ frame.fn \in {"get_team_players", "map_team_id", "get_team_scores"}
     /\ frame.team \notin TeamCodes)
    => (NoNetwork(log) /\ log # <<>> /\ Last(log).kind = "msg")

(* C5: get_live_league with a non-empty list of games: when no game is of the
   requested league it prints "No live action currently for {league}." and the
   writer is not called; otherwise the writer gets exactly the games of that
   league, in the order of the response, each re-labelled with the league code. *)
C5_Forwarded(bundle) ==
    /\ Len(bundle) = Cardinality(Matching)
    /\ \A k \in DOMAIN bundle :
        \E i \in Matching :
            /\ Cardinality({j \in Matching : j <= i}) = k
            /\ bundle[k].id = resp.games[i].id
            /\ bundle[k].league = frame.league

C5_LiveLeagueFilter ==
    (/\ frame.fn = "get_live_league"
     /\ resp.status = CodeOk
     /\ resp.games # <<>>)
    => IF Matching = {}
       THEN /\ pc = "Done"
            /\ Last(log) = E("msg", "No live action currently for {league}.", 0)
            /\ Count("render") = Count("sleep")
       ELSE /\ pc = "Rendering" => C5_Forwarded(scores)
            /\ pc # "Rendering"
               => (C5_Forwarded(shown) /\ Count("render") = Count("live"))

C5_Witness ==
    /\ frame.fn = "get_live_league"
    /\ pc \in {"Waiting", "Done"}
    /\ resp.status = CodeOk
    /\ Len(shown) = 1
    /\ Len(resp.games) = 2
    /\ resp.games[2].league = LEAGUE_NAMES[frame.league]

(* C6: main with the stdout format and an output file ends with
   IncorrectParametersException before get_writer is called: no writer, no
   handler, no request and no writer call, whatever the other flags; and the
   invocation is over. *)
C6_StdoutFileRejected ==
    [][/\ pc # "Done"
       /\ (pc = "main" /\ args.output_format = "stdout" /\ args.output_file = "out.txt")
          => /\ pc' = "Done"
             /\ writer' = "None"
             /\ frame' = NoFrame
             /\ Rejected(log') /\ Len(log') = 2
             /\ NoNetwork(log') /\ log'[2].kind # "render"]_vars

C6_Witness ==
    /\ pc = "Done"
    /\ writer = "None"
    /\ frame = NoFrame
    /\ Rejected(log)
    /\ Last(log).what = "Printing output to stdout and saving to a file are mutually exclusive"

(* C7: the polling loop. A writer call follows one request; a sleep follows a
   writer call, lasts refresh seconds and happens only when refresh > 0; every
   request but the first follows a sleep; with refresh <= 0 there is one
   request, at most one writer call, no sleep. *)
C7_PollingLoop ==
    IsLive(frame.fn) =>
    LET t == Trace
        r == frame.refresh
    IN  /\ \A i \in DOMAIN t :
            /\ t[i].kind = "live" => (i = 1 \/ t[i - 1].kind = "sleep")
            /\ t[i].kind = "render"
               => /\ i > 1 /\ t[i - 1].kind = "live"
                  /\ i < Len(t) => t[i + 1].kind = "sleep"
            /\ t[i].kind = "sleep"
               => /\ r > 0 /\ t[i].n = r
                  /\ i > 1 /\ t[i - 1].kind = "render"
                  /\ i < Len(t) => t[i + 1].kind = "live"
        /\ r <= 0 => (Count("live") <= 1 /\ Count("render") <= 1 /\ Count("sleep") = 0)
        /\ (r <= 0 /\ pc = "Done") => Count("live") = 1
        /\ pc = "Fetching" => (t = <<>> \/ Last(t).kind = "sleep")
        /\ pc = "Rendering" => (t # <<>> /\ Last(t).kind = "live")
        /\ pc = "Waiting" => (r > 0 /\ t # <<>> /\ Last(t).kind = "render")
        /\ pc = "Done" => (/\ t # <<>>
                           /\ Last(t).kind \in {"live", "render"}
                           /\ Last(t).kind = "render" => r <= 0)

C7_Witness ==
    /\ IsLive(frame.fn)
    /\ pc = "Fetching"
    /\ Count("sleep") = 1
    /\ Count("render") = 1

(* C8: get_standings sends one request, the league table, and renders it when
   it is answered; get_matchday_standings with a matchday up to the current one
   sends the competition lookup and then the matchday table and renders it
   when it is answered; main runs the first for --standings with a league and no
   matchday above 0, the second for a matchday above 0. *)
C8_Calls ==
    pc = "Done" =>
    /\ frame.fn = "get_standings"
       => /\ Len(Requests) = 1
          /\ Requests[1].what = "competitions/{id}/leagueTable"
          /\ log[1] = Requests[1]
          /\ Count("render") = (IF Requests[1].n = CodeOk THEN 1 ELSE 0)
          /\ Requests[1].n = CodeOk
             => (Len(log) = 2 /\ log[2].what \in {"standings", "standings_extended"})
    /\ (/\ frame.fn = "get_matchday_standings"
        /\ competition >= 0
        /\ frame.matchday <= competition)
       => /\ Len(Requests) = 2
          /\ Requests[1] = E("get", "competitions/{id}", CodeOk)
          /\ Requests[2].what = "competitions/{id}/leagueTable/?matchday={matchday}"
          /\ log[1] = Requests[1] /\ log[2] = Requests[2]
          /\ Count("render") = (IF Requests[2].n = CodeOk THEN 1 ELSE 0)
          /\ Requests[2].n = CodeOk
             => (Len(log) = 3 /\ log[3].what \in {"standings", "standings_extended"})

C8_Dispatch ==
    (/\ pc = "main"
     /\ ~StdoutWithFile(args.output_format, args.output_file)
     /\ ~args.listcodes /\ ~args.listleagues /\ ~args.live
     /\ args.standings /\ args.league # "None")
    => /\ log' = <<>>
       /\ frame'.league = args.league
       /\ frame'.fn = (IF args.matchday > 0 THEN "get_matchday_standings"
                       ELSE "get_standings")
       /\ args.matchday > 0 => frame'.matchday = args.matchday

C8_StandingsCalls == []C8_Calls /\ [][C8_Dispatch]_vars

C8_Witness ==
    /\ pc = "Done"
    /\ frame.fn = "get_matchday_standings"
    /\ competition >= 0
    /\ frame.matchday <= competition
    /\ frame.matchday > 0
    /\ Len(log) = 3
    /\ Last(log).kind = "render"

(* C9: the writer operations of the fixtures, roster and live handlers are only
   ever called with a non-empty result. *)
C9_EmptyResultGuard ==
    \A i \in DOMAIN log :
        (/\ log[i].kind = "render"
         /\ log[i].what \in {"team_scores", "league_scores", "team_players", "live_scores"})
        => log[i].n > 0

(* C10: with refresh > 0 every cycle sends one live request, and the cycle
   whose response is not 200, has no games or has no game of the league is the
   last: a message, no writer call, no sleep, no further request.  The loop
   ends in no other way. *)
C10_StopOnFailedPoll ==
    (IsLive(frame.fn) /\ frame.refresh > 0) =>
    /\ Count("live") = Count("sleep") + (IF pc = "Fetching" THEN 0 ELSE 1)
    /\ Count("sleep") = cycles
    /\ \A i \in DOMAIN log :
        (log[i].kind = "msg" /\ log[i].what \in StopMessages) => i = Len(log)
    /\ (resp.status # 0 /\ PollFailed)
       => /\ pc = "Done"
          /\ Last(log).kind = "msg" /\ Last(log).what \in StopMessages
          /\ log[Len(log) - 1].kind = "live"
          /\ Count("render") = Count("sleep")
    /\ pc = "Done" => PollFailed

C10_Witness ==
    /\ IsLive(frame.fn)
    /\ frame.refresh > 0
    /\ pc = "Done"
    /\ cycles >= 1
    /\ PollFailed
    /\ Count("render") = cycles

====
